---- MODULE Spec2Model ----
(***************************************************************************)
(* A model of the CoreDNS redis plugin (plugin/plugin.go): the zone-name   *)
(* cache with its ticker-driven refresh (startZoneNameCache), the query    *)
(* dispatcher (ServeDNS) and the AXFR envelope streamer                    *)
(* (handleZoneTransfer) with its producer goroutine and the transfer       *)
(* writer that consumes the handoff channel.                               *)
(*                                                                         *)
(* Domain names are sequences of labels, most significant label last:      *)
(* "x.b.a." is <<"x", "b", "a">>.  A resource record is [id, len]: its     *)
(* position in the sequence the store returned and its wire length.        *)
(***************************************************************************)
EXTENDS Integers, Sequences, FiniteSets, TLC

VARIABLES
    storeZones,         \* the zone names the record store holds now
    storeRecords,       \* wire lengths of the records the store returns for a transfer
    MaxTransferLength,  \* redis.MaxTransferLength, fixed for a run
    pNext,              \* Plugin.Next: TRUE when a next handler is installed, FALSE when nil
    zones,              \* Plugin.zones
    lock,               \* Plugin.lock: "free" or the name of the holder
    startPc,            \* position of startZoneNameCache
    startZ,             \* z of startZoneNameCache
    refreshPc,          \* position of the goroutine startZoneNameCache spawns
    refreshZ,           \* z of the goroutine
    refreshErr,         \* err of the goroutine
    tickC,              \* number of ticks waiting in loadZoneTicker.C (capacity 1)
    ticksFired,         \* ticks the ticker has fired so far
    qs,                 \* per query: the position and locals of ServeDNS
    xfr                 \* per query: the state of handleZoneTransfer

vars == <<storeZones, storeRecords, MaxTransferLength, pNext, zones, lock, startPc,
          startZ, refreshPc, refreshZ, refreshErr, tickC, ticksFired, qs, xfr>>

cacheVars == <<zones, lock, startPc, startZ, refreshPc, refreshZ, refreshErr>>
tickVars == <<tickC, ticksFired>>
envVars == <<storeRecords, MaxTransferLength, pNext>>

----------------------------------------------------------------------------
(* Bounds *)

MaxTicks == 2
MaxRecords == 3
MaxRecLen == 4
MaxLen == 3
MaxZones == 2

----------------------------------------------------------------------------
(* Names, zone lists, query types *)

ZoneA == <<"a">>
ZoneBA == <<"b", "a">>

ZoneLists == { <<>>, <<ZoneA>>, <<ZoneA, ZoneBA>> }

QNames == { <<"c">>, <<"x", "a">>, <<"x", "b", "a">> }

NoZone == <<"">>

Supported == {"SOA", "A", "AAAA", "CNAME", "TXT", "NS", "MX", "SRV", "PTR", "CAA"}
NeedZones == {"NS", "MX", "SRV", "PTR"}
QTypes == Supported \cup {"AXFR", "None", "HINFO"}

Queries == {"q1"}

Min(a, b) == IF a < b THEN a ELSE b

Take(s, n) == SubSeq(s, 1, Min(n, Len(s)))

RECURSIVE SeqsUpTo(_, _)
SeqsUpTo(S, n) ==
    IF n = 0 THEN { <<>> }
    ELSE LET shorter == SeqsUpTo(S, n - 1)
         IN  shorter \cup { Append(s, x) : s \in { t \in shorter : Len(t) = n - 1 }, x \in S }

----------------------------------------------------------------------------
(* The zone-name cache: startZoneNameCache and its refresh goroutine *)

\* Redis.LoadAllZoneNames: the store's list and no error, or nil and an error.
LoadAllZoneNames(store) ==
    { [z |-> store, err |-> FALSE], [z |-> <<>>, err |-> TRUE] }

\* The process is alive: log.Fatal at startup ends it.
Running == startPc # "fatal"

\* The ticker fires; loadZoneTicker.C holds one tick and a tick that finds it
\* full is dropped.
Tick ==
    /\ Running
    /\ ticksFired < MaxTicks
    /\ ticksFired' = ticksFired + 1
    /\ tickC' = 1
    /\ UNCHANGED <<storeZones, envVars, cacheVars, qs, xfr>>

\* The record store's zone list changes (zones are added or removed by its owner).
StoreUpdate ==
    /\ Running
    /\ \E s \in ZoneLists \ {storeZones} : storeZones' = s
    /\ UNCHANGED <<envVars, cacheVars, tickVars, qs, xfr>>

\* z, err := p.Redis.LoadAllZoneNames(); if err != nil { log.Fatal(...) }
StartLoad ==
    /\ startPc = "load"
    /\ \E r \in LoadAllZoneNames(storeZones) :
          /\ startZ' = r.z
          /\ startPc' = IF r.err THEN "fatal" ELSE "lock"
    /\ UNCHANGED <<storeZones, envVars, zones, lock, refreshPc, refreshZ, refreshErr,
                   tickVars, qs, xfr>>

\* p.lock.Lock()
StartLock ==
    /\ startPc = "lock"
    /\ lock = "free"
    /\ lock' = "start"
    /\ startPc' = "assign"
    /\ UNCHANGED <<storeZones, envVars, zones, startZ, refreshPc, refreshZ, refreshErr,
                   tickVars, qs, xfr>>

\* p.zones = z
StartAssign ==
    /\ startPc = "assign"
    /\ zones' = startZ
    /\ startPc' = "unlock"
    /\ UNCHANGED <<storeZones, envVars, lock, startZ, refreshPc, refreshZ, refreshErr,
                   tickVars, qs, xfr>>

\* p.lock.Unlock()
StartUnlock ==
    /\ startPc = "unlock"
    /\ lock' = "free"
    /\ startPc' = "spawn"
    /\ UNCHANGED <<storeZones, envVars, zones, startZ, refreshPc, refreshZ, refreshErr,
                   tickVars, qs, xfr>>

\* go func() { ... }() and the return of startZoneNameCache
StartSpawn ==
    /\ startPc = "spawn"
    /\ startPc' = "done"
    /\ refreshPc' = "select"
    /\ UNCHANGED <<storeZones, envVars, zones, lock, startZ, refreshZ, refreshErr,
                   tickVars, qs, xfr>>

\* case <-p.loadZoneTicker.C:
RefreshSelect ==
    /\ Running
    /\ refreshPc = "select"
    /\ tickC = 1
    /\ tickC' = 0
    /\ refreshPc' = "load"
    /\ UNCHANGED <<storeZones, envVars, zones, lock, startPc, startZ, refreshZ, refreshErr,
                   ticksFired, qs, xfr>>

\* A refresh that takes the lock before it loads: the load is made with the
\* lock held.
RefreshLoadLocked ==
    /\ Running
    /\ refreshPc = "load"
    /\ lock = "free"
    /\ \E r \in LoadAllZoneNames(storeZones) :
          /\ refreshZ' = r.z
          /\ refreshErr' = r.err
          /\ refreshPc' = "assign"
    /\ lock' = "refresh"
    /\ UNCHANGED <<storeZones, envVars, zones, startPc, startZ, tickVars, qs, xfr>>

\* z, err := p.Redis.LoadAllZoneNames(); if err != nil { log.Error(...) }:
\* the error is logged and the goroutine goes on to the assignment either way.
RefreshLoad ==
    /\ Running
    /\ refreshPc = "load"
    /\ \E r \in LoadAllZoneNames(storeZones) :
          /\ refreshZ' = r.z
          /\ refreshErr' = r.err
          /\ refreshPc' = "lock"
    /\ UNCHANGED <<storeZones, envVars, zones, lock, startPc, startZ, tickVars, qs, xfr>>

\* p.lock.Lock()
RefreshLock ==
    /\ Running
    /\ refreshPc = "lock"
    /\ lock = "free"
    /\ lock' = "refresh"
    /\ refreshPc' = "assign"
    /\ UNCHANGED <<storeZones, envVars, zones, startPc, startZ, refreshZ, refreshErr,
                   tickVars, qs, xfr>>

\* p.zones = z
RefreshAssign ==
    /\ Running
    /\ refreshPc = "assign"
    /\ zones' = refreshZ
    /\ refreshPc' = "unlock"
    /\ UNCHANGED <<storeZones, envVars, lock, startPc, startZ, refreshZ, refreshErr,
                   tickVars, qs, xfr>>

\* p.lock.Unlock(); log.Info("zone name cache refreshed"); the select is not in
\* a loop, so the goroutine's function returns here.
RefreshUnlock ==
    /\ Running
    /\ refreshPc = "unlock"
    /\ lock' = "free"
    /\ refreshPc' = "exited"
    /\ UNCHANGED <<storeZones, envVars, zones, startPc, startZ, refreshZ, refreshErr,
                   tickVars, qs, xfr>>

----------------------------------------------------------------------------
(* Collaborators of the dispatcher *)

\* len() of a name written as a string: "." is 1, "a." is 2, "b.a." is 4 (every
\* label of the model is one character); the empty string is 0.
StrLen(name) == IF name = NoZone THEN 0 ELSE IF name = <<>> THEN 1 ELSE 2 * Len(name)

\* dns.IsSubDomain(parent, child): the labels of parent end the labels of child.
IsSubDomain(parent, child) ==
    /\ Len(parent) <= Len(child)
    /\ SubSeq(child, Len(child) - Len(parent) + 1, Len(child)) = parent

\* plugin.Zones(zs).Matches(qname): scans the list, keeping the longest name
\* that is a parent of qname; "" when there is none.
RECURSIVE MatchesFrom(_, _, _, _)
MatchesFrom(zs, qname, k, zone) ==
    IF k > Len(zs) THEN zone
    ELSE MatchesFrom(zs, qname, k + 1,
                     IF IsSubDomain(zs[k], qname) /\ StrLen(zs[k]) > StrLen(zone)
                     THEN zs[k] ELSE zone)

\* A match that stops at the first zone that is a parent of qname.
RECURSIVE FirstMatchFrom(_, _, _)
FirstMatchFrom(zs, qname, k) ==
    IF k > Len(zs) THEN NoZone
    ELSE IF IsSubDomain(zs[k], qname) THEN zs[k]
    ELSE FirstMatchFrom(zs, qname, k + 1)

MatchesFirst(zs, qname) == FirstMatchFrom(zs, qname, 1)

Matches(zs, qname) == MatchesFrom(zs, qname, 1, NoZone)

\* What a read of p.zones yields.  ServeDNS reads the field without taking
\* p.lock; a read made while the goroutine is at its assignment races with the
\* write of the slice header and may see the old header, the new one, or the
\* pointer of one with the length of the other.
ReadZones ==
    IF refreshPc = "assign"
    THEN { zones, refreshZ, Take(zones, Len(refreshZ)), Take(refreshZ, Len(zones)) }
    ELSE { zones }

\* plugin.NextOrFailure(qName, p.Next, ctx, w, r): the next handler's result, or
\* SERVFAIL and an error when p.Next is nil.
NextRets == {"Success", "Refused"}

NextOrFailure(next, nextRet) ==
    IF next THEN [by |-> "Next", code |-> nextRet, err |-> FALSE]
    ELSE [by |-> "NextOrFailure", code |-> "ServerFailure", err |-> TRUE]

\* Redis.LoadZoneC(zoneName, false, conn): the zone, or nil; a zone the store
\* does not hold is never loaded.
LoadZoneC(zoneName, store) ==
    {"nil"} \cup (IF \E k \in 1..Len(store) : store[k] = zoneName THEN {"zone"} ELSE {})

\* Redis.FindLocation(qName, zone): the location of qName in the zone, or "".
FindLocation == {"", "loc"}

\* Redis.ErrorResponse(state, zoneName, rcode, nil): writes an authoritative
\* message carrying rcode.
ErrorResponse(rcode) == [rcode |-> rcode, authoritative |-> TRUE]

\* The message ServeDNS builds itself (m.SetReply(r), m.Authoritative = true).
SuccessMsg == [rcode |-> "Success", authoritative |-> TRUE]

\* Redis.AXFR(zone, zones, conn): the zone's records, SOA first.
AXFR(lens) == [k \in 1..Len(lens) |-> [id |-> k, len |-> lens[k]]]

----------------------------------------------------------------------------
(* ServeDNS *)

IdleQuery ==
    [pc |-> "idle", qName |-> <<>>, qType |-> "None", conn |-> "none", connId |-> 0,
     closes |-> 0, loaded |-> NoZone,
     reads |-> <<>>, zoneName |-> NoZone, zone |-> "none", location |-> "none",
     calls |-> {}, written |-> <<>>, ret |-> [by |-> "none", code |-> "none", err |-> FALSE],
     nextRet |-> "none"]

IdleXfr ==
    [records |-> <<>>, ppc |-> "none", i |-> 0, j |-> 0, l |-> 0, env |-> <<>>, built |-> 0,
     closed |-> FALSE, closeCount |-> 0, pushed |-> <<>>,
     cpc |-> "none", received |-> <<>>, outErr |-> FALSE, hijacked |-> FALSE]

\* The connections of p.Redis.Pool.
Conns == {1, 2}

\* A Return without the deferred Close.
ReturnNoClose(r, ret) == [r EXCEPT !.pc = "done", !.ret = ret]

\* The deferred conn.Close() runs when ServeDNS returns.
Return(r, ret) ==
    [r EXCEPT !.pc = "done", !.ret = ret,
              !.conn = IF r.conn = "open" THEN "closed" ELSE r.conn,
              !.closes = IF r.conn = "open" THEN r.closes + 1 ELSE r.closes]

\* Calling the next handler, when there is one.
Delegate(r, nextRet) ==
    Return([r EXCEPT !.calls = IF pNext THEN r.calls \cup {"Next"} ELSE r.calls,
                     !.nextRet = IF pNext THEN nextRet ELSE "none"],
           NextOrFailure(pNext, nextRet))

\* return p.Redis.ErrorResponse(state, zoneName, rcode, nil)
Fail(r, rcode) ==
    Return([r EXCEPT !.written = Append(r.written, ErrorResponse(rcode)),
                     !.calls = r.calls \cup {"ErrorResponse"}],
           [by |-> "ErrorResponse", code |-> rcode, err |-> FALSE])

\* p.Redis.Pool.Get(): a connection no request holds (the pool hands a connection
\* to one caller at a time and takes it back on Close); connections are
\* interchangeable, so the first free one stands for any.
PoolGet ==
    CHOOSE c \in Conns :
        /\ \A q \in DOMAIN qs : ~(qs[q].conn = "open" /\ qs[q].connId = c)
        /\ \A d \in Conns :
              (\A q \in DOMAIN qs : ~(qs[q].conn = "open" /\ qs[q].connId = d)) => c <= d

\* Lines 43-52: the request's name and type, the early delegation, and the
\* connection from the pool.  request.Name() is never "", so only a request
\* without a question (type None) leaves here.
Begin(q) ==
    /\ startPc = "done"
    /\ qs[q].pc = "idle"
    /\ \E n \in QNames, t \in QTypes :
          LET r == [IdleQuery EXCEPT !.qName = n, !.qType = t]
          IN  IF t = "None"
              THEN \E nr \in NextRets : qs' = [qs EXCEPT ![q] = Delegate(r, nr)]
              ELSE qs' = [qs EXCEPT ![q] = [r EXCEPT !.pc = "match", !.conn = "open",
                                                     !.connId = PoolGet]]
    /\ xfr' = [xfr EXCEPT ![q] = IdleXfr]
    /\ UNCHANGED <<storeZones, envVars, cacheVars, tickVars>>

\* ServeDNS has returned and the server is ready for the next request; a
\* transfer's goroutine that has not finished is still there.
Served(q) ==
    /\ qs[q].pc = "done"
    /\ xfr[q].ppc \in {"none", "done"}
    /\ qs' = [qs EXCEPT ![q] = IdleQuery]
    /\ xfr' = [xfr EXCEPT ![q] = IdleXfr]
    /\ UNCHANGED <<storeZones, envVars, cacheVars, tickVars>>

\* A match whose empty result is not tested.
MatchBranchUntested(zoneName) == "loadzone"

\* Line 63: what follows the match.
MatchBranch(zoneName) == IF zoneName = NoZone THEN "delegate" ELSE "loadzone"

\* Lines 62-66: zoneName := plugin.Zones(p.zones).Matches(qName)
Match(q) ==
    /\ Running
    /\ qs[q].pc = "match"
    /\ \E zl \in ReadZones, nr \in NextRets :
          LET zn == Matches(zl, qs[q].qName)
              r == [qs[q] EXCEPT !.reads = Append(@, zl), !.zoneName = zn]
          IN  qs' = [qs EXCEPT ![q] =
                        IF MatchBranch(zn) = "delegate" THEN Delegate(r, nr)
                        ELSE [r EXCEPT !.pc = "loadzone"]]
    /\ UNCHANGED <<storeZones, envVars, cacheVars, tickVars, xfr>>

\* The AXFR test made before the nil test.
ZoneBranchAxfrFirst(zone, qType) ==
    IF qType = "AXFR" THEN "axfr"
    ELSE IF zone = "nil" THEN "servfail"
    ELSE "findloc"

\* A dispatcher without the AXFR test.
ZoneBranchNoAxfr(zone, qType) == IF zone = "nil" THEN "servfail" ELSE "findloc"

\* Lines 69 and 74: what follows the load of the zone.
ZoneBranch(zone, qType) ==
    IF zone = "nil" THEN "servfail"
    ELSE IF qType = "AXFR" THEN "axfr"
    ELSE "findloc"

\* Lines 68-77: zone := p.Redis.LoadZoneC(zoneName, false, conn)
LoadZone(q) ==
    /\ Running
    /\ qs[q].pc = "loadzone"
    /\ \E zone \in LoadZoneC(qs[q].zoneName, storeZones) :
          LET r == [qs[q] EXCEPT !.zone = zone, !.loaded = qs[q].zoneName,
                                 !.calls = @ \cup {"LoadZoneC"}]
              b == ZoneBranch(zone, r.qType)
          IN  qs' = [qs EXCEPT ![q] =
                        IF b = "servfail" THEN Fail(r, "ServerFailure")
                        ELSE [r EXCEPT !.pc = b]]
    /\ UNCHANGED <<storeZones, envVars, cacheVars, tickVars, xfr>>

\* A lookup whose empty result is not tested.
LocationBranchUntested(location) == "dispatch"

\* Line 80: what follows the lookup of the location.
LocationBranch(location) == IF location = "" THEN "nxdomain" ELSE "dispatch"

\* Lines 79-88: location := p.Redis.FindLocation(qName, zone), and the load of
\* the record set when there is a location.
FindLoc(q) ==
    /\ Running
    /\ qs[q].pc = "findloc"
    /\ \E loc \in FindLocation :
          LET r == [qs[q] EXCEPT !.location = loc, !.calls = @ \cup {"FindLocation"}]
          IN  qs' = [qs EXCEPT ![q] =
                        IF LocationBranch(loc) = "nxdomain" THEN Fail(r, "NameError")
                        ELSE [r EXCEPT !.pc = "dispatch",
                                       !.calls = @ \cup {"LoadZoneRecordsC"}]]
    /\ UNCHANGED <<storeZones, envVars, cacheVars, tickVars, xfr>>

\* A switch that lacks the case for CAA.
HasCaseNoCAA(qType) == qType \in Supported \ {"CAA"}

\* Lines 90-114: the types the switch has a case for.
HasCase(qType) == qType \in Supported

\* Lines 90-124: the switch on qType (NS, MX, SRV and PTR read p.zones), the
\* message and its write.
Dispatch(q) ==
    /\ Running
    /\ qs[q].pc = "dispatch"
    /\ \E zl \in ReadZones :
          LET r == qs[q]
              rd == IF r.qType \in NeedZones THEN Append(r.reads, zl) ELSE r.reads
          IN  qs' = [qs EXCEPT ![q] =
                        IF HasCase(r.qType)
                        THEN Return([r EXCEPT !.reads = rd,
                                              !.calls = @ \cup {r.qType, "WriteMsg"},
                                              !.written = Append(@, SuccessMsg)],
                                    [by |-> "ServeDNS", code |-> "Success", err |-> FALSE])
                        ELSE Fail(r, "NotImplemented")]
    /\ UNCHANGED <<storeZones, envVars, cacheVars, tickVars, xfr>>

----------------------------------------------------------------------------
(* handleZoneTransfer: the producer goroutine, the channel, and Transfer.Out *)

\* A slice that starts one record late.
EnvelopeRRLate(records, j, i) == SubSeq(records, j + 2, i)

\* records[j:i]
EnvelopeRR(records, j, i) == SubSeq(records, j + 1, i)

\* A flush test that is off by one.
FlushNeededShort(j, n) == j < n - 1

\* Line 144: whether records are left for a final envelope.
FlushNeeded(j, n) == j < n

\* Lines 76 and 129-133: the call (its zones argument is a read of p.zones),
\* records := p.Redis.AXFR(...), the channel and the start of the goroutine;
\* the handler then runs tr.Out.
XfrStart(q) ==
    /\ Running
    /\ qs[q].pc = "axfr"
    /\ \E zl \in ReadZones :
          qs' = [qs EXCEPT ![q] = [@ EXCEPT !.pc = "out", !.reads = Append(@, zl),
                                            !.calls = @ \cup {"AXFR"}]]
    /\ xfr' = [xfr EXCEPT ![q] = [IdleXfr EXCEPT !.records = AXFR(storeRecords),
                                                 !.ppc = "scan", !.cpc = "recv"]]
    /\ UNCHANGED <<storeZones, envVars, cacheVars, tickVars>>

\* A loop whose send does not wait for the receiver (a channel with room): the
\* envelope is left in the channel and the scan goes on.
ProdScanNoWait(q) ==
    LET x == xfr[q] IN
    /\ Running
    /\ x.ppc = "scan"
    /\ x.i < Len(x.records)
    /\ LET l == x.l + x.records[x.i + 1].len
       IN  xfr' = [xfr EXCEPT ![q] =
                      IF l > MaxTransferLength
                      THEN [x EXCEPT !.l = 0, !.j = x.i, !.i = x.i + 1, !.built = @ + 1,
                                     !.env = EnvelopeRR(x.records, x.j, x.i)]
                      ELSE [x EXCEPT !.l = l, !.i = x.i + 1]]
    /\ UNCHANGED <<storeZones, envVars, cacheVars, tickVars, qs>>

\* Lines 136-143: one iteration of the loop, up to the send when the running
\* length has passed MaxTransferLength.
ProdScan(q) ==
    LET x == xfr[q] IN
    /\ Running
    /\ x.ppc = "scan"
    /\ x.i < Len(x.records)
    /\ LET l == x.l + x.records[x.i + 1].len
       IN  xfr' = [xfr EXCEPT ![q] =
                      IF l > MaxTransferLength
                      THEN [x EXCEPT !.l = l, !.ppc = "send", !.built = @ + 1,
                                     !.env = EnvelopeRR(x.records, x.j, x.i)]
                      ELSE [x EXCEPT !.l = l, !.i = x.i + 1]]
    /\ UNCHANGED <<storeZones, envVars, cacheVars, tickVars, qs>>

\* Lines 144-146: after the loop, up to the send of the final envelope.
ProdFlush(q) ==
    LET x == xfr[q] IN
    /\ Running
    /\ x.ppc = "scan"
    /\ x.i = Len(x.records)
    /\ xfr' = [xfr EXCEPT ![q] =
                  IF FlushNeeded(x.j, Len(x.records))
                  THEN [x EXCEPT !.ppc = "sendlast", !.built = @ + 1,
                                 !.env = EnvelopeRR(x.records, x.j, Len(x.records))]
                  ELSE [x EXCEPT !.ppc = "close"]]
    /\ UNCHANGED <<storeZones, envVars, cacheVars, tickVars, qs>>

\* The channel is unbuffered: a send completes together with the receive of
\* Transfer.Out's "for x := range ch", which then writes the envelope as one
\* message and returns the error when the write fails.  After a send in the
\* loop the producer runs l = 0; j = i and goes to the next iteration.
Handoff(q) ==
    LET x == xfr[q] IN
    /\ Running
    /\ x.ppc \in {"send", "sendlast"}
    /\ x.cpc = "recv"
    /\ ~x.closed
    /\ \E ok \in BOOLEAN :
          LET p == IF x.ppc = "send"
                   THEN [x EXCEPT !.ppc = "scan", !.l = 0, !.j = x.i, !.i = x.i + 1,
                                  !.env = <<>>]
                   ELSE [x EXCEPT !.ppc = "close", !.env = <<>>]
          IN  xfr' = [xfr EXCEPT ![q] =
                         [p EXCEPT !.pushed = Append(@, x.env),
                                   !.received = Append(@, x.env),
                                   !.cpc = IF ok THEN "recv" ELSE "returned",
                                   !.outErr = ~ok]]
    /\ UNCHANGED <<storeZones, envVars, cacheVars, tickVars, qs>>

\* Line 147: close(ch)
ProdClose(q) ==
    /\ Running
    /\ xfr[q].ppc = "close"
    /\ xfr' = [xfr EXCEPT ![q] = [@ EXCEPT !.ppc = "done", !.closed = TRUE,
                                           !.closeCount = @ + 1]]
    /\ UNCHANGED <<storeZones, envVars, cacheVars, tickVars, qs>>

\* Transfer.Out's range loop ends when it finds the channel closed.
OutEnd(q) ==
    /\ Running
    /\ xfr[q].cpc = "recv"
    /\ xfr[q].closed
    /\ xfr' = [xfr EXCEPT ![q] = [@ EXCEPT !.cpc = "ended"]]
    /\ UNCHANGED <<storeZones, envVars, cacheVars, tickVars, qs>>

\* Lines 150-155: err := tr.Out(...) has returned; the error is printed,
\* w.Hijack(), return dns.RcodeSuccess, nil.
XfrReturn(q) ==
    /\ Running
    /\ qs[q].pc = "out"
    /\ xfr[q].cpc \in {"ended", "returned"}
    /\ xfr' = [xfr EXCEPT ![q] = [@ EXCEPT !.hijacked = TRUE]]
    /\ qs' = [qs EXCEPT ![q] =
                 Return([@ EXCEPT !.calls = @ \cup {"Hijack"}],
                        [by |-> "handleZoneTransfer", code |-> "Success", err |-> FALSE])]
    /\ UNCHANGED <<storeZones, envVars, cacheVars, tickVars>>

----------------------------------------------------------------------------
(* Specifications *)

RecordLens == SeqsUpTo(1..MaxRecLen, MaxRecords)

\* After construction: nothing cached, the ticker created, startZoneNameCache
\* about to run.  The store holds one fixed set of records here; SpecXfr ranges
\* over the record sequences.
Init ==
    /\ storeZones \in ZoneLists
    /\ storeRecords = <<1, 2, 1>>
    /\ MaxTransferLength = 2
    /\ pNext \in BOOLEAN
    /\ zones = <<>>
    /\ lock = "free"
    /\ startPc = "load"
    /\ startZ = <<>>
    /\ refreshPc = "none"
    /\ refreshZ = <<>>
    /\ refreshErr = FALSE
    /\ tickC = 0
    /\ ticksFired = 0
    /\ qs = [q \in Queries |-> IdleQuery]
    /\ xfr = [q \in Queries |-> IdleXfr]

CacheNext ==
    \/ Tick
    \/ StoreUpdate
    \/ StartLoad
    \/ StartLock
    \/ StartAssign
    \/ StartUnlock
    \/ StartSpawn
    \/ RefreshSelect
    \/ RefreshLoad
    \/ RefreshLock
    \/ RefreshAssign
    \/ RefreshUnlock

Serve(q) ==
        \/ Begin(q)
        \/ Match(q)
        \/ LoadZone(q)
        \/ FindLoc(q)
        \/ Dispatch(q)
        \/ XfrStart(q)
        \/ ProdScan(q)
        \/ ProdFlush(q)
        \/ Handoff(q)
        \/ ProdClose(q)
        \/ OutEnd(q)
        \/ XfrReturn(q)
        \/ Served(q)

ServeNext == \E q \in Queries : Serve(q)

Next == CacheNext \/ ServeNext

Spec == Init /\ [][Next]_vars

\* The server once startZoneNameCache has returned and before the first tick,
\* for every record sequence of the store and every maximum transfer length.
InitXfr ==
    /\ storeZones \in ZoneLists \ { <<>> }
    /\ storeRecords \in RecordLens
    /\ MaxTransferLength \in 1..MaxLen
    /\ pNext = TRUE
    /\ zones = storeZones
    /\ lock = "free"
    /\ startPc = "done"
    /\ startZ = storeZones
    /\ refreshPc = "select"
    /\ refreshZ = <<>>
    /\ refreshErr = FALSE
    /\ tickC = 0
    /\ ticksFired = 0
    /\ qs = [q \in Queries |-> IdleQuery]
    /\ xfr = [q \in Queries |-> IdleXfr]

SpecXfr == InitXfr /\ [][ServeNext]_vars

\* The server once startZoneNameCache has returned, for every zone list of up to
\* MaxZones names in any order (the root zone among them).
ZoneNames == { <<>>, ZoneA, ZoneBA, <<"b">> }

InitMatch ==
    /\ storeZones \in SeqsUpTo(ZoneNames, MaxZones)
    /\ storeRecords = <<1, 2, 1>>
    /\ MaxTransferLength = 2
    /\ pNext = TRUE
    /\ zones = storeZones
    /\ lock = "free"
    /\ startPc = "done"
    /\ startZ = storeZones
    /\ refreshPc = "select"
    /\ refreshZ = <<>>
    /\ refreshErr = FALSE
    /\ tickC = 0
    /\ ticksFired = 0
    /\ qs = [q \in Queries |-> IdleQuery]
    /\ xfr = [q \in Queries |-> IdleXfr]

SpecMatch == InitMatch /\ [][ServeNext]_vars

\* Two requests served concurrently, once startZoneNameCache has returned.
TwoQueries == {"q1", "q2"}

InitTwo ==
    /\ storeZones = <<ZoneA, ZoneBA>>
    /\ storeRecords = <<1, 2, 1>>
    /\ MaxTransferLength = 2
    /\ pNext \in BOOLEAN
    /\ zones = storeZones
    /\ lock = "free"
    /\ startPc = "done"
    /\ startZ = storeZones
    /\ refreshPc = "select"
    /\ refreshZ = <<>>
    /\ refreshErr = FALSE
    /\ tickC = 0
    /\ ticksFired = 0
    /\ qs = [q \in TwoQueries |-> IdleQuery]
    /\ xfr = [q \in TwoQueries |-> IdleXfr]

ServeNextTwo == \E q \in TwoQueries : Serve(q)

SpecTwo == InitTwo /\ [][ServeNextTwo]_vars

----------------------------------------------------------------------------
(* Properties *)

RECURSIVE Flatten(_)
Flatten(envs) == IF envs = <<>> THEN <<>> ELSE Head(envs) \o Flatten(Tail(envs))

RECURSIVE WireLen(_)
WireLen(rr) == IF rr = <<>> THEN 0 ELSE Head(rr).len + WireLen(Tail(rr))

IsPrefix(s, t) == Len(s) <= Len(t) /\ SubSeq(t, 1, Len(s)) = s

\* The query's next step reads p.zones.
AboutToReadZones(q) ==
    \/ qs[q].pc \in {"match", "axfr"}
    \/ qs[q].pc = "dispatch" /\ qs[q].qType \in NeedZones

\* C1: a refresh whose LoadAllZoneNames failed leaves p.zones as it was: no
\* step taken while the goroutine holds a failed load at its assignment
\* changes the cached list.
C1_FailedRefreshKeepsList ==
    [][(refreshPc = "assign" /\ refreshErr) => zones' = zones]_vars

\* C2: the refresh task lives as long as the process, so every tick is taken by
\* it: a tick waiting in the ticker's channel never finds that the task has
\* returned.
C2_EveryTickHasRefreshTask == tickC = 1 => refreshPc # "exited"

\* C3: no query is about to read p.zones while the refresh goroutine is about
\* to write it (the read is not ordered with the write by the lock).
C3_NoUnsynchronizedReadWrite ==
    \A q \in Queries : ~(AboutToReadZones(q) /\ refreshPc = "assign")

\* C4: every envelope pushed has a total record length of at most
\* MaxTransferLength, unless it holds a single record that is itself longer.
C4_EnvelopeWithinLength ==
    \A q \in Queries : \A k \in 1..Len(xfr[q].pushed) :
        LET e == xfr[q].pushed[k]
        IN  \/ WireLen(e) <= MaxTransferLength
            \/ Len(e) = 1 /\ e[1].len > MaxTransferLength

\* C5: the envelopes received, concatenated in the order received, are always
\* a prefix of the records, and are exactly the records once the consumer has
\* seen the end of the transfer.
C5_ConcatReproducesRecords ==
    \A q \in Queries :
        /\ IsPrefix(Flatten(xfr[q].received), xfr[q].records)
        /\ xfr[q].received = xfr[q].pushed
        /\ xfr[q].cpc = "ended" => Flatten(xfr[q].received) = xfr[q].records

C5_Witness ==
    \E q \in Queries :
        /\ xfr[q].cpc = "ended"
        /\ Len(xfr[q].received) >= 2
        /\ Len(xfr[q].records) >= 3

\* C6: a record longer than MaxTransferLength is alone in the envelope that
\* carries it.
C6_OversizedRecordAlone ==
    \A q \in Queries : \A k \in 1..Len(xfr[q].pushed) :
        LET e == xfr[q].pushed[k]
        IN  \A n \in 1..Len(e) : e[n].len > MaxTransferLength => Len(e) = 1

\* C7: the producer closes the channel at most once, only when every record
\* has been pushed in an envelope, and sends nothing afterwards; the consumer
\* sees the end only of a closed channel, having received every envelope.
C7_ClosedOnceAfterLast ==
    \A q \in Queries :
        /\ xfr[q].closeCount <= 1
        /\ xfr[q].closed =>
              /\ xfr[q].closeCount = 1
              /\ xfr[q].ppc = "done"
              /\ xfr[q].env = <<>>
              /\ Flatten(xfr[q].pushed) = xfr[q].records
        /\ xfr[q].cpc = "ended" =>
              /\ xfr[q].closed
              /\ xfr[q].received = xfr[q].pushed

C7_Witness ==
    \E q \in Queries :
        /\ xfr[q].cpc = "ended"
        /\ xfr[q].closed
        /\ Len(xfr[q].pushed) >= 2

\* C8: a query whose matched zone loads as nil is answered SERVFAIL and nothing
\* else happens: no transfer, no location lookup, no record-set load, no
\* delegation; whatever the query type.
C8_NilZoneServfail ==
    \A q \in Queries :
        (qs[q].pc = "done" /\ qs[q].zone = "nil") =>
            /\ qs[q].written = << ErrorResponse("ServerFailure") >>
            /\ qs[q].calls \cap {"AXFR", "Hijack", "FindLocation", "LoadZoneRecordsC",
                                 "Next", "WriteMsg"} = {}
            /\ qs[q].ret.by = "ErrorResponse"
            /\ xfr[q].ppc = "none"

C8_Witness ==
    \E q \in Queries :
        /\ qs[q].pc = "done"
        /\ qs[q].zone = "nil"
        /\ qs[q].qType = "AXFR"
        /\ qs[q].zoneName # NoZone

\* The query matched no zone of the list it read.
NoMatch(q) ==
    /\ qs[q].pc = "done"
    /\ qs[q].qType # "None"
    /\ Len(qs[q].reads) >= 1
    /\ Matches(qs[q].reads[1], qs[q].qName) = NoZone

\* C9 as stated: a query that matches no cached zone writes nothing, loads no
\* zone, and returns what the next handler returns.
C9_DelegatesToNext ==
    \A q \in Queries :
        NoMatch(q) =>
            /\ qs[q].written = <<>>
            /\ "LoadZoneC" \notin qs[q].calls
            /\ "Next" \in qs[q].calls
            /\ qs[q].ret = [by |-> "Next", code |-> qs[q].nextRet, err |-> FALSE]

\* C9 amended: a query that matches no cached zone writes nothing and loads no
\* zone; it returns what the next handler returns when there is one, and
\* SERVFAIL with an error, calling nothing, when Plugin.Next is nil.
C9_DelegatesOrFails ==
    \A q \in Queries :
        NoMatch(q) =>
            /\ qs[q].written = <<>>
            /\ "LoadZoneC" \notin qs[q].calls
            /\ qs[q].conn = "closed"
            /\ IF pNext
               THEN /\ "Next" \in qs[q].calls
                    /\ qs[q].ret = [by |-> "Next", code |-> qs[q].nextRet, err |-> FALSE]
               ELSE /\ "Next" \notin qs[q].calls
                    /\ qs[q].ret = [by |-> "NextOrFailure", code |-> "ServerFailure",
                                    err |-> TRUE]

C9_Witness ==
    \E q \in Queries :
        /\ NoMatch(q)
        /\ qs[q].reads[1] # <<>>
        /\ pNext
        /\ qs[q].ret.code = "Refused"

\* C10: a query other than AXFR whose zone loaded and whose location is empty
\* is answered with an authoritative NXDOMAIN, whatever its type; no record set
\* is loaded and no success message is written.
C10_NoLocationNxdomain ==
    \A q \in Queries :
        (qs[q].pc = "done" /\ qs[q].location = "") =>
            /\ qs[q].zone = "zone"
            /\ qs[q].qType # "AXFR"
            /\ qs[q].written = << [rcode |-> "NameError", authoritative |-> TRUE] >>
            /\ qs[q].calls \cap ({"LoadZoneRecordsC", "WriteMsg"} \cup Supported) = {}

C10_Witness ==
    \E q \in Queries :
        /\ qs[q].pc = "done"
        /\ qs[q].location = ""
        /\ qs[q].qType = "HINFO"

\* C11: a query whose zone loaded and whose location was found gets a success
\* message exactly when its type is one of SOA, A, AAAA, CNAME, TXT, NS, MX,
\* SRV, PTR, CAA; any other type gets NOTIMP and no success message.
C11_SuccessIffSupported ==
    \A q \in Queries :
        (qs[q].pc = "done" /\ qs[q].location = "loc") =>
            IF qs[q].qType \in {"SOA", "A", "AAAA", "CNAME", "TXT", "NS", "MX", "SRV",
                                "PTR", "CAA"}
            THEN /\ qs[q].written = << SuccessMsg >>
                 /\ qs[q].qType \in qs[q].calls
                 /\ qs[q].ret = [by |-> "ServeDNS", code |-> "Success", err |-> FALSE]
            ELSE /\ qs[q].written = << [rcode |-> "NotImplemented", authoritative |-> TRUE] >>
                 /\ "WriteMsg" \notin qs[q].calls
                 /\ qs[q].ret.by = "ErrorResponse"

C11_Witness ==
    \E q \in Queries :
        /\ qs[q].pc = "done"
        /\ qs[q].location = "loc"
        /\ qs[q].qType = "HINFO"
        /\ qs[q].written # <<>>

\* C12: a request takes its connection from the pool before anything else it
\* does with the store and holds it until ServeDNS returns; when the handler has
\* returned the connection it took has been closed exactly once (the request
\* without a question returns before taking one); and no two requests in flight
\* hold the same connection.
C12_ConnReleasedOnEveryExit ==
    /\ \A q \in DOMAIN qs :
          /\ qs[q].pc \in {"match", "loadzone", "findloc", "dispatch", "axfr", "out"} =>
                (qs[q].conn = "open" /\ qs[q].connId \in Conns /\ qs[q].closes = 0)
          /\ qs[q].pc = "done" =>
                IF qs[q].qType = "None"
                THEN qs[q].conn = "none" /\ qs[q].closes = 0 /\ qs[q].calls \subseteq {"Next"}
                ELSE qs[q].conn = "closed" /\ qs[q].closes = 1
    /\ \A q1, q2 \in DOMAIN qs :
          (q1 # q2 /\ qs[q1].conn = "open" /\ qs[q2].conn = "open") =>
              qs[q1].connId # qs[q2].connId

\* A transfer has returned with its connection closed while another request
\* holds a connection.
C12_Witness ==
    \E q1, q2 \in DOMAIN qs :
        /\ q1 # q2
        /\ qs[q1].pc = "done"
        /\ "Hijack" \in qs[q1].calls
        /\ qs[q1].conn = "closed"
        /\ qs[q2].conn = "open"
        /\ qs[q2].connId = qs[q1].connId

\* C13: an AXFR query whose zone loaded goes to the transfer and nowhere else:
\* no location lookup, no record-set load, no error response and no message of
\* the dispatcher's own; the connection is hijacked only once Transfer.Out has
\* returned, with or without an error, and the handler then returns success.
C13_AxfrHandsOff ==
    \A q \in Queries :
        (qs[q].qType = "AXFR" /\ qs[q].zone = "zone") =>
            /\ qs[q].pc \in {"axfr", "out", "done"}
            /\ qs[q].calls \subseteq {"LoadZoneC", "AXFR", "Hijack"}
            /\ qs[q].written = <<>>
            /\ qs[q].location = "none"
            /\ xfr[q].hijacked => xfr[q].cpc \in {"ended", "returned"}
            /\ ("Hijack" \in qs[q].calls) = xfr[q].hijacked
            /\ xfr[q].hijacked = (qs[q].pc = "done")
            /\ qs[q].pc = "done" =>
                  qs[q].ret = [by |-> "handleZoneTransfer", code |-> "Success", err |-> FALSE]

\* The transfer failed with a write error and the handler returned success.
C13_Witness ==
    \E q \in Queries :
        /\ qs[q].qType = "AXFR"
        /\ qs[q].pc = "done"
        /\ xfr[q].outErr
        /\ xfr[q].hijacked
        /\ qs[q].ret.code = "Success"

\* C14: the transfer of a zone whose record sequence is the SOA alone pushes
\* exactly one envelope, holding the SOA, whatever the SOA's length and the
\* maximum transfer length.
C14_SoaOnlyOneEnvelope ==
    \A q \in Queries :
        (Len(xfr[q].records) = 1 /\ xfr[q].closed) =>
            xfr[q].pushed = << xfr[q].records >>

\* C15: a transfer whose records are together longer than MaxTransferLength
\* pushes at least two envelopes, the first beginning with the SOA (the first
\* record) and the last holding exactly the records the earlier ones left.
C15_SplitStartsWithSoa ==
    \A q \in Queries :
        (xfr[q].closed /\ WireLen(xfr[q].records) > MaxTransferLength) =>
            LET n == Len(xfr[q].pushed)
            IN  /\ n >= 2
                /\ xfr[q].pushed[1] # <<>>
                /\ xfr[q].pushed[1][1] = xfr[q].records[1]
                /\ Flatten(SubSeq(xfr[q].pushed, 1, n - 1)) \o xfr[q].pushed[n]
                      = xfr[q].records

\* The names of Z that are N or end N at a label boundary.
SuffixesIn(Z, N) ==
    { z \in { Z[k] : k \in 1..Len(Z) } :
        \E m \in 0..Len(N) : z = SubSeq(N, m + 1, Len(N)) }

\* The longest of them, or none.
LongestSuffix(Z, N) ==
    IF SuffixesIn(Z, N) = {} THEN NoZone
    ELSE CHOOSE z \in SuffixesIn(Z, N) : \A y \in SuffixesIn(Z, N) : Len(y) <= Len(z)

\* C16: the zone selected for a query name is the longest name of the cached
\* list that ends the query name at a label boundary, or none when there is
\* none; the zone loaded from the store is the selected one.
C16_LongestSuffixMatch ==
    \A q \in Queries :
        Len(qs[q].reads) >= 1 =>
            /\ qs[q].reads[1] = zones
            /\ qs[q].zoneName = LongestSuffix(zones, qs[q].qName)
            /\ qs[q].zone # "none" =>
                  (qs[q].loaded = qs[q].zoneName /\ qs[q].zoneName # NoZone)
            /\ (qs[q].zoneName = NoZone /\ qs[q].pc = "done") => "Next" \in qs[q].calls

\* The shorter parent comes first in the list and the longer zone is selected
\* and loaded.
C16_Witness ==
    \E q \in Queries :
        /\ zones = <<ZoneA, ZoneBA>>
        /\ qs[q].qName = <<"x", "b", "a">>
        /\ qs[q].zoneName = ZoneBA
        /\ qs[q].zone = "zone"
        /\ qs[q].loaded = ZoneBA

\* The writer's next step is its call of LoadAllZoneNames.
AboutToLoad(w) == IF w = "start" THEN startPc = "load" ELSE refreshPc = "load"

\* C17: the cache's writers never fetch from the store with the lock held: a
\* writer holds the lock exactly between its Lock and its Unlock, which enclose
\* the assignment alone, and every step that fetches the zone names is taken
\* with the lock free and leaves it free.
C17_NoStoreIoUnderLock ==
    [][ /\ (lock = "start") = (startPc \in {"assign", "unlock"})
        /\ (lock = "refresh") = (refreshPc \in {"assign", "unlock"})
        /\ lock \in {"free", "start", "refresh"}
        /\ \A w \in {"start", "refresh"} :
              (AboutToLoad(w) /\ ~AboutToLoad(w)') => (lock = "free" /\ lock' = "free")
      ]_vars

\* A failed refresh has run to its end and the lock is free.
C17_Witness ==
    /\ refreshPc = "exited"
    /\ refreshErr
    /\ lock = "free"

\* C18: at most one envelope has been built by the producer and not yet
\* received by Transfer.Out, and there is one exactly while the producer waits
\* in its send: it builds the next envelope only after the handoff.
C18_AtMostOneInFlight ==
    \A q \in Queries :
        LET inFlight == xfr[q].built - Len(xfr[q].received)
        IN  /\ inFlight \in {0, 1}
            /\ (inFlight = 1) = (xfr[q].ppc \in {"send", "sendlast"})
            /\ inFlight = 0 => xfr[q].env = <<>>

\* The producer waits with its second envelope while the first has been taken.
C18_Witness ==
    \E q \in Queries :
        /\ xfr[q].ppc \in {"send", "sendlast"}
        /\ xfr[q].built = 2
        /\ Len(xfr[q].received) = 1
        /\ xfr[q].cpc = "recv"

\* C19: the producer goroutine can always go on to its close: whenever it waits
\* in a send, Transfer.Out is still receiving.
C19_ProducerNeverStranded ==
    \A q \in Queries :
        xfr[q].ppc \in {"send", "sendlast"} => xfr[q].cpc = "recv"

\* C20: all the reads of p.zones made for one query return the same list.
C20_OneSnapshotPerQuery ==
    \A q \in Queries :
        \A k \in 1..Len(qs[q].reads) : qs[q].reads[k] = qs[q].reads[1]

====
